---------------------------- MODULE Spec2Model ----------------------------
(***************************************************************************)
(* A model of ext4_cp.py: copying entries of an ext4 image into a          *)
(* destination directory of the host.                                      *)
(*                                                                         *)
(* A Python string is a sequence of one-character strings (message         *)
(* literals are kept as whole fragments).  A host path, once the host has  *)
(* parsed it, is a sequence of names.  The destination file system is a    *)
(* function from such paths to nodes.                                      *)
(***************************************************************************)
EXTENDS Integers, Sequences, FiniteSets, TLC

(***************************************************************************)
(* Bounds of the model.                                                    *)
(***************************************************************************)
\* the number of SOURCE specifiers of one invocation is 1..MaxSources
MaxSources == 2

(***************************************************************************)
(* Python str operations.                                                  *)
(***************************************************************************)
Min(a, b) == IF a < b THEN a ELSE b

Last(s) == s[Len(s)]

Front(s) == SubSeq(s, 1, Len(s) - 1)

\* the lowest index of an element of s that lies in cs; 0 when there is none
FirstIdx(s, cs) ==
    IF \E i \in 1..Len(s) : s[i] \in cs
    THEN CHOOSE i \in 1..Len(s) : s[i] \in cs /\ \A j \in 1..(i - 1) : s[j] \notin cs
    ELSE 0

\* the highest index of an element of s that lies in cs; 0 when there is none
LastIdx(s, cs) ==
    IF \E i \in 1..Len(s) : s[i] \in cs
    THEN CHOOSE i \in 1..Len(s) : s[i] \in cs /\ \A j \in (i + 1)..Len(s) : s[j] \notin cs
    ELSE 0

RECURSIVE SplitOn(_, _)
\* s.split(c) for the separators cs: empty pieces are kept
SplitOn(s, cs) ==
    LET i == FirstIdx(s, cs)
    IN  IF i = 0 THEN <<s>>
        ELSE <<SubSeq(s, 1, i - 1)>> \o SplitOn(SubSeq(s, i + 1, Len(s)), cs)

\* s.split(c)
Split(s, c) == SplitOn(s, {c})

\* s.split(c, 1)
Split1(s, c) ==
    LET i == FirstIdx(s, {c})
    IN  IF i = 0 THEN <<s>>
        ELSE <<SubSeq(s, 1, i - 1), SubSeq(s, i + 1, Len(s))>>

RECURSIVE Join(_, _)
\* sep.join(parts)
Join(parts, sep) ==
    IF parts = <<>> THEN <<>>
    ELSE IF Len(parts) = 1 THEN parts[1]
    ELSE parts[1] \o sep \o Join(Tail(parts), sep)

\* s.endswith(suf)
EndsWith(s, suf) ==
    /\ Len(s) >= Len(suf)
    /\ SubSeq(s, Len(s) - Len(suf) + 1, Len(s)) = suf

RECURSIVE Replace(_, _, _)
\* s.replace(c, r) for a one-character c
Replace(s, c, r) ==
    IF s = <<>> THEN <<>>
    ELSE (IF s[1] = c THEN r ELSE <<s[1]>>) \o Replace(Tail(s), c, r)

DigitChar == <<"0", "1", "2", "3", "4", "5", "6", "7", "8", "9">>

RECURSIVE Digits(_)
\* f"{i:d}" for i >= 0
Digits(i) ==
    IF i < 10 THEN <<DigitChar[i + 1]>>
    ELSE Digits(i \div 10) \o <<DigitChar[(i % 10) + 1]>>

\* b.decode("utf8") of one-byte code points; the table covers the bytes the
\* images hold
Chr ==
    (46 :> ".") @@ (47 :> "/") @@ (92 :> "\\") @@ (95 :> "_") @@
    (97 :> "a") @@ (98 :> "b") @@ (103 :> "g") @@ (122 :> "z")

Utf8Decode(bytes) == [i \in 1..Len(bytes) |-> Chr[bytes[i]]]


(***************************************************************************)
(* The state.                                                              *)
(***************************************************************************)
VARIABLES
    platform,   \* sys.platform
    args,       \* the argparse namespace, with imgfname and src_fnames once set
    fs,         \* the destination file system of the host
    out,        \* the lines printed so far
    pc,         \* where main() stands
    opened,     \* whether the image file has been opened
    todo,       \* index in args.src_fnames of the source path main() is at
    stack,      \* the active for_all_entries_do calls, innermost last
    calls,      \* the do_func calls made so far, in order
    before,     \* the destination file system as the last do_func call found it
    exc,        \* the message of the exception that is propagating
    status      \* the exit status of the process, -1 while it runs

vars == <<platform, args, fs, out, pc, opened, todo, stack, calls, before, exc, status>>

(***************************************************************************)
(* The image: ext4.Volume, Inode.open_dir, Inode.open_read,                *)
(* Inode.get_inode.                                                        *)
(***************************************************************************)
FILE == "FILE"
DIRECTORY == "DIRECTORY"
CHARACTER_DEVICE == "CHARACTER_DEVICE"
BLOCK_DEVICE == "BLOCK_DEVICE"
FIFO == "FIFO"
SOCKET == "SOCKET"
SYMBOLIC_LINK == "SYMBOLIC_LINK"

RootIno == 2

NoIno == 0

\* the image: inode number -> the entries of a directory (name, inode, type)
\* in the order the image stores them, or the bytes of a file or link.
\* The root holds the name f twice; a/g and a_g meet under flatten.
Volume ==
    (2 :> [entries |-> << << <<".">>, 2, DIRECTORY >>,
                          << <<".", ".">>, 2, DIRECTORY >>,
                          << <<"f">>, 11, FILE >>,
                          << <<"a">>, 12, DIRECTORY >>,
                          << <<"a", "_", "g">>, 13, FILE >>,
                          << <<"l">>, 14, SYMBOLIC_LINK >>,
                          << <<"f">>, 15, FILE >> >>,
           data |-> <<>>]) @@
    (11 :> [entries |-> <<>>, data |-> <<1>>]) @@
    (12 :> [entries |-> << << <<".">>, 12, DIRECTORY >>,
                           << <<".", ".">>, 2, DIRECTORY >>,
                           << <<"g">>, 16, FILE >>,
                           << <<"b">>, 17, DIRECTORY >>,
                           << <<"c">>, 18, CHARACTER_DEVICE >> >>,
            data |-> <<>>]) @@
    (13 :> [entries |-> <<>>, data |-> <<3>>]) @@
    (14 :> [entries |-> <<>>, data |-> <<97, 47, 103>>]) @@
    (15 :> [entries |-> <<>>, data |-> <<5>>]) @@
    (16 :> [entries |-> <<>>, data |-> <<6>>]) @@
    (17 :> [entries |-> << << <<".">>, 17, DIRECTORY >>,
                           << <<".", ".">>, 12, DIRECTORY >>,
                           << <<"x", ".", "f", "w">>, 19, FILE >> >>,
            data |-> <<>>]) @@
    (18 :> [entries |-> <<>>, data |-> <<>>]) @@
    (19 :> [entries |-> <<>>, data |-> <<9>>])

\* inode.open_dir(): the (file_name, inode_idx, file_type) triples in image order
OpenDir(ino) == Volume[ino].entries

\* inode.open_read().read()
ReadAll(ino) == Volume[ino].data

\* the index in the enumeration of the first entry named name; 0 if none
FirstMatch(entries, name) ==
    IF \E i \in 1..Len(entries) : entries[i][1] = name
    THEN CHOOSE i \in 1..Len(entries) :
            /\ entries[i][1] = name
            /\ \A j \in 1..(i - 1) : entries[j][1] # name
    ELSE 0

RECURSIVE GetInode(_, _)
\* inode.get_inode(*names): descend name by name; NoIno when a name is
\* missing from its parent's enumeration
GetInode(ino, names) ==
    IF names = <<>> THEN ino
    ELSE LET k == FirstMatch(OpenDir(ino), names[1])
         IN  IF k = 0 THEN NoIno
             ELSE GetInode(OpenDir(ino)[k][2], Tail(names))

\* reader.read(n): the next chunk of at most n bytes from position pos
ReadChunk(data, pos, n) == SubSeq(data, pos + 1, Min(pos + n, Len(data)))

ChunkSize == 64 * 1024

RECURSIVE CopyChunks(_, _)
\* the bytes the loop "while data := reader.read(64*1024)" writes
CopyChunks(data, pos) ==
    LET chunk == ReadChunk(data, pos, ChunkSize)
    IN  IF chunk = <<>> THEN <<>>
        ELSE chunk \o CopyChunks(data, pos + Len(chunk))

(***************************************************************************)
(* The host: os.sep, os.path, open, os.mkdir, os.symlink, pathlib.         *)
(***************************************************************************)
Win32 == platform = "win32"

\* os.sep
OsSep == IF Win32 THEN "\\" ELSE "/"

\* the characters the host takes as path separators
HostSeps == IF Win32 THEN {"/", "\\"} ELSE {"/"}

\* the names of a path as the host parses it: empty names and "." drop out
HostPath(s) ==
    SelectSeq(SplitOn(s, HostSeps), LAMBDA c : c # <<>> /\ c # <<".">>)

DirNode == [kind |-> "dir", data |-> <<>>, target |-> <<>>]

FileNode(d) == [kind |-> "file", data |-> d, target |-> <<>>]

LinkNode(t) == [kind |-> "link", data |-> <<>>, target |-> t]

RECURSIVE Resolve(_, _, _)
\* the path a path stands for once the links at its end are followed; a link's
\* target is taken relative to the directory holding the link
Resolve(f, p, seen) ==
    IF p \in DOMAIN f /\ f[p].kind = "link"
    THEN IF p \in seen THEN [ok |-> FALSE, path |-> p]
         ELSE Resolve(f, Front(p) \o HostPath(f[p].target), seen \cup {p})
    ELSE [ok |-> TRUE, path |-> p]

\* os.path.islink(s)
IsLink(f, s) == HostPath(s) \in DOMAIN f /\ f[HostPath(s)].kind = "link"

\* os.path.exists(s): links are followed, a dangling link does not exist
PathExists(f, s) ==
    LET r == Resolve(f, HostPath(s), {})
    IN  r.ok /\ r.path \in DOMAIN f

\* os.path.isdir(s): links are followed
IsDir(f, s) ==
    LET r == Resolve(f, HostPath(s), {})
    IN  r.ok /\ r.path \in DOMAIN f /\ f[r.path].kind = "dir"

\* whether the directory that is to hold path p is a directory
ParentIsDir(f, p) ==
    /\ p # <<>>
    /\ Front(p) \in DOMAIN f
    /\ f[Front(p)].kind = "dir"

Errno(text, s) == <<"[Errno] ", text, ": '">> \o s \o <<"'">>

\* open(s, "wb"), the writes, and close: the file is created or truncated
OpenWrite(f, s, d) ==
    LET r == Resolve(f, HostPath(s), {})
        p == r.path
    IN  IF ~r.ok
        THEN [exc |-> Errno("Too many levels of symbolic links", s), fs |-> f]
        ELSE IF ~ParentIsDir(f, p)
        THEN [exc |-> Errno("No such file or directory", s), fs |-> f]
        ELSE IF p \in DOMAIN f /\ f[p].kind = "dir"
        THEN [exc |-> Errno("Is a directory", s), fs |-> f]
        ELSE [exc |-> <<>>, fs |-> (p :> FileNode(d)) @@ f]

\* os.mkdir(s)
Mkdir(f, s) ==
    LET p == HostPath(s)
    IN  IF p \in DOMAIN f
        THEN [exc |-> Errno("File exists", s), fs |-> f]
        ELSE IF ~ParentIsDir(f, p)
        THEN [exc |-> Errno("No such file or directory", s), fs |-> f]
        ELSE [exc |-> <<>>, fs |-> (p :> DirNode) @@ f]

\* os.symlink(t, s)
Symlink(f, t, s) ==
    LET p == HostPath(s)
    IN  IF p \in DOMAIN f
        THEN [exc |-> Errno("File exists", s), fs |-> f]
        ELSE IF ~ParentIsDir(f, p)
        THEN [exc |-> Errno("No such file or directory", s), fs |-> f]
        ELSE [exc |-> <<>>, fs |-> (p :> LinkNode(t)) @@ f]

\* PurePath(s).suffix of the final name
Suffix(name) ==
    LET i == LastIdx(name, {"."})
    IN  IF 1 < i /\ i < Len(name) THEN SubSeq(name, i, Len(name)) ELSE <<>>

\* PurePath(s).stem
Stem(name) == SubSeq(name, 1, Len(name) - Len(Suffix(name)))

\* str(PurePath(s).with_stem(stem))
WithStem(s, stem) ==
    LET parts == HostPath(s)
    IN  Join(Front(parts) \o <<stem \o Suffix(Last(parts))>>, <<OsSep>>)


(***************************************************************************)
(* extract: the callback that materializes one entry.                      *)
(***************************************************************************)
\* sep of extract: os.sep, or "_" under --flatten
ExtractSep == IF args.flatten THEN "_" ELSE OsSep

\* dst_fpath as first computed: the destination root, the relative path and
\* the entry name; the first two parts are joined by "/", the rest by sep
dst_fpath(rel_path, file_name) ==
    LET parts == (IF args.directory # <<>> THEN <<args.directory>> ELSE <<>>)
                 \o (IF rel_path # <<>> THEN <<rel_path>> ELSE <<>>)
                 \o <<file_name>>
        head == Join(SubSeq(parts, 1, Min(2, Len(parts))), <<"/">>)
    IN  Join(<<head>> \o SubSeq(parts, 3, Len(parts)), <<ExtractSep>>)

RECURSIVE UniqLoop(_, _, _, _)
\* the loop "while os.path.exists(u) or os.path.islink(u)" over the candidates
\* stem_1, stem_2, ... of path d, from candidate u with counter i
UniqLoop(f, d, u, i) ==
    IF PathExists(f, u) \/ IsLink(f, u)
    THEN UniqLoop(f, d,
                  WithStem(d, Stem(Last(HostPath(d))) \o <<"_">> \o Digits(i + 1)),
                  i + 1)
    ELSE u

\* dst_fpath after the --conflict-rename block
dst_fpath_uniq(f, d, file_type) ==
    IF args.conflict_rename /\ file_type # DIRECTORY
    THEN UniqLoop(f, d, d, 0)
    ELSE d

\* dst_fpath after the --wa-fnames block of a regular file
wa_fname(d) ==
    IF args.wa_fnames /\ Win32 /\ EndsWith(d, <<".", "f", "w">>)
    THEN d \o <<".", "b", "i", "n">>
    ELSE d

\* symlink_fpath: the bytes of the link inode, decoded, "/" replaced by sep
symlink_fpath(ino) == Replace(Utf8Decode(ReadAll(ino)), "/", <<ExtractSep>>)

\* the line printed per entry at -vv
EntryLine(rel_path, file_name) ==
    IF args.verbose > 1 THEN << rel_path \o <<"/">> \o file_name >> ELSE <<>>

\* the line printed for a directory met without -R
OmitLine(rel_path, file_name) ==
    IF args.verbose > 0
    THEN << args.imgfname \o <<": -R not specified; omitting directory '">>
            \o rel_path \o <<"/">> \o file_name \o <<"'">> >>
    ELSE <<>>

NoChange(f, d) == [fs |-> f, out |-> <<>>, ret |-> FALSE, exc |-> <<>>, dst |-> d]

\* the branch of a regular file
ExtractFile(f, ino, rel_path, file_name, d) ==
    LET w == OpenWrite(f, wa_fname(d), CopyChunks(ReadAll(ino), 0))
    IN  [fs |-> w.fs, out |-> EntryLine(rel_path, file_name), ret |-> FALSE,
         exc |-> w.exc, dst |-> wa_fname(d)]

\* ExtractDirectory with the test of args.recursive left out
ExtractDirectoryAlwaysRecursive(f, rel_path, file_name, d) ==
    IF file_name \in {<<".">>, <<".", ".">>}
    THEN NoChange(f, d)
    ELSE IF args.flatten
    THEN [NoChange(f, d) EXCEPT !.ret = TRUE]
    ELSE LET m == IF IsDir(f, d) THEN [exc |-> <<>>, fs |-> f] ELSE Mkdir(f, d)
         IN  [fs |-> m.fs, out |-> EntryLine(rel_path, file_name),
              ret |-> m.exc = <<>>, exc |-> m.exc, dst |-> d]

\* ExtractDirectory with os.mkdir left out
ExtractDirectoryNoMkdir(f, rel_path, file_name, d) ==
    IF file_name \in {<<".">>, <<".", ".">>}
    THEN NoChange(f, d)
    ELSE IF ~args.recursive
    THEN [NoChange(f, d) EXCEPT !.out = OmitLine(rel_path, file_name)]
    ELSE [NoChange(f, d) EXCEPT !.ret = TRUE, !.out = EntryLine(rel_path, file_name)]

\* the branch of a directory
ExtractDirectory(f, rel_path, file_name, d) ==
    IF file_name \in {<<".">>, <<".", ".">>}
    THEN NoChange(f, d)
    ELSE IF ~args.recursive
    THEN [NoChange(f, d) EXCEPT !.out = OmitLine(rel_path, file_name)]
    ELSE IF args.flatten
    THEN [NoChange(f, d) EXCEPT !.ret = TRUE]
    ELSE LET m == IF IsDir(f, d) THEN [exc |-> <<>>, fs |-> f] ELSE Mkdir(f, d)
         IN  [fs |-> m.fs, out |-> EntryLine(rel_path, file_name),
              ret |-> m.exc = <<>>, exc |-> m.exc, dst |-> d]

\* the branches of a character device, block device, FIFO and socket
ExtractPlaceholder(f, rel_path, file_name, d) ==
    LET w == OpenWrite(f, d, <<>>)
    IN  [fs |-> w.fs, out |-> EntryLine(rel_path, file_name), ret |-> FALSE,
         exc |-> w.exc, dst |-> d]

\* ExtractSymlink with the test of os.path.islink left out
ExtractSymlinkUnchecked(f, ino, rel_path, file_name, d) ==
    LET l == Symlink(f, symlink_fpath(ino), d)
    IN  [fs |-> l.fs, out |-> EntryLine(rel_path, file_name), ret |-> FALSE,
         exc |-> l.exc, dst |-> d]

\* the branch of a symbolic link
ExtractSymlink(f, ino, rel_path, file_name, d) ==
    LET l == IF IsLink(f, d) THEN [exc |-> <<>>, fs |-> f]
             ELSE Symlink(f, symlink_fpath(ino), d)
    IN  [fs |-> l.fs, out |-> EntryLine(rel_path, file_name), ret |-> FALSE,
         exc |-> l.exc, dst |-> d]

\* extract(inode, path, rel_path, file_name, file_type, args) on host state f:
\* the host state and the lines it leaves, its return value, the exception it
\* raises (<<>> if none) and the destination path it settled on
extract(f, ino, path, rel_path, file_name, file_type) ==
    LET d == dst_fpath_uniq(f, dst_fpath(rel_path, file_name), file_type)
    IN  CASE file_type = FILE -> ExtractFile(f, ino, rel_path, file_name, d)
          [] file_type = DIRECTORY -> ExtractDirectory(f, rel_path, file_name, d)
          [] file_type \in {CHARACTER_DEVICE, BLOCK_DEVICE, FIFO, SOCKET} ->
                ExtractPlaceholder(f, rel_path, file_name, d)
          [] file_type = SYMBOLIC_LINK -> ExtractSymlink(f, ino, rel_path, file_name, d)
          [] OTHER -> NoChange(f, d)

\* the record kept of one do_func call made by function by, with result r
CallRecord(by, ino, path, rel_path, file_name, file_type, r) ==
    [by |-> by, path |-> path, rel_path |-> rel_path, file_name |-> file_name,
     ino |-> ino, file_type |-> file_type, ret |-> r.ret, dst |-> r.dst,
     raised |-> r.exc # <<>>, out |-> r.out]

(***************************************************************************)
(* The inputs of a run.                                                    *)
(***************************************************************************)
\* the SOURCE specifiers: i:. i:a/ i:f i:a/z (z is in no directory) and j:f
\* of another image
Specifiers ==
    { <<"i", ":", ".">>,
      <<"i", ":", "a", "/">>,
      <<"i", ":", "f">>,
      <<"i", ":", "a", "/", "z">>,
      <<"j", ":", "f">> }

RECURSIVE SeqsUpTo(_, _)
\* the sequences over S of length 0..n
SeqsUpTo(S, n) ==
    IF n = 0 THEN {<<>>}
    ELSE LET shorter == SeqsUpTo(S, n - 1)
         IN  shorter \cup {Append(q, x) : q \in {t \in shorter : Len(t) = n - 1}, x \in S}

Sources == SeqsUpTo(Specifiers, MaxSources) \ {<<>>}

\* the counts of -v: 0, 1 and 2 stand for the three cases the code tells
\* apart, verbose = 0, verbose = 1 and verbose > 1
Verbosities == {0, 1, 2}

\* the DIRECTORY arguments: the empty one and out/
Directories == { <<>>, <<"o", "u", "t", "/">> }

\* the destination as a run may find it: only the working directory and out,
\* or with earlier entries below the destination root r
HostStates(r) ==
    LET base == (<<>> :> DirNode) @@ (<< <<"o", "u", "t">> >> :> DirNode)
    IN  { base,
          (r \o << <<"f">> >> :> FileNode(<<7>>)) @@
          (r \o << <<"f", "_", "1">> >> :> LinkNode(<<"z">>)) @@
          (r \o << <<"a", "_", "g">> >> :> DirNode) @@
          (r \o << <<"l">> >> :> LinkNode(<<"f">>)) @@
          base }

Init ==
    /\ platform \in {"linux", "win32"}
    /\ \E src \in Sources, dir \in Directories, v \in Verbosities,
          R \in BOOLEAN, t \in BOOLEAN, wa \in BOOLEAN, n \in BOOLEAN :
          /\ args = [source |-> src, directory |-> dir, recursive |-> R,
                     flatten |-> t, wa_fnames |-> wa, conflict_rename |-> n,
                     verbose |-> v, imgfname |-> <<>>, src_fnames |-> <<>>]
          /\ fs \in HostStates(SelectSeq(Split(dir, "/"), LAMBDA c : c # <<>>))
    /\ out = <<>>
    /\ pc = "main"
    /\ opened = FALSE
    /\ todo = 1
    /\ stack = <<>>
    /\ calls = <<>>
    /\ before = fs
    /\ exc = <<>>
    /\ status = -1

(***************************************************************************)
(* main: the arguments, the image, the loop over the source paths.         *)
(***************************************************************************)
\* s with one trailing "/" removed
StripSlash(s) == IF EndsWith(s, <<"/">>) THEN Front(s) ELSE s

RECURSIVE ParseSourcesUnchecked(_, _)
\* ParseSources with the test of the image name left out
ParseSourcesUnchecked(source, imgfname) ==
    IF source = <<>> THEN [exc |-> <<>>, src_fnames |-> <<>>]
    ELSE LET fnsplit == Split1(source[1], ":")
             src_fname == IF Len(fnsplit) > 1 THEN fnsplit[2] ELSE <<".">>
             rest == ParseSourcesUnchecked(Tail(source), imgfname)
         IN  [exc |-> <<>>,
              src_fnames |-> <<StripSlash(src_fname)>> \o rest.src_fnames]

RECURSIVE ParseSources(_, _)
\* the loop over args.source: the src_fnames, or the ValueError raised at the
\* first specifier of another image
ParseSources(source, imgfname) ==
    IF source = <<>> THEN [exc |-> <<>>, src_fnames |-> <<>>]
    ELSE LET fnsplit == Split1(source[1], ":")
             src_fname == IF Len(fnsplit) > 1 THEN fnsplit[2] ELSE <<".">>
             rest == ParseSources(Tail(source), imgfname)
         IN  IF fnsplit[1] # imgfname
             THEN [exc |-> <<"Single command can only extract from one image, not '">>
                           \o fnsplit[1] \o <<"'.">>,
                   src_fnames |-> <<>>]
             ELSE [exc |-> rest.exc,
                   src_fnames |-> IF rest.exc # <<>> THEN <<>>
                                  ELSE <<StripSlash(src_fname)>> \o rest.src_fnames]

\* main() from the parsed arguments to the opening of the image
main_args ==
    /\ pc = "main"
    /\ LET imgfname == Split1(args.source[1], ":")[1]
           parsed == ParseSources(args.source, imgfname)
       IN  /\ args' = [args EXCEPT !.imgfname = imgfname,
                                   !.src_fnames = parsed.src_fnames,
                                   !.directory = IF parsed.exc = <<>>
                                                 THEN StripSlash(@) ELSE @]
           /\ exc' = parsed.exc
           /\ pc' = IF parsed.exc = <<>> THEN "open" ELSE "raised"
    /\ UNCHANGED <<platform, fs, out, opened, todo, stack, calls, before, status>>

\* main(): open the image, make the volume, print its line at -v
main_open ==
    /\ pc = "open"
    /\ opened' = TRUE
    /\ out' = IF args.verbose > 0
              THEN Append(out, args.imgfname \o <<", Volume has block size">>)
              ELSE out
    /\ pc' = "loop"
    /\ UNCHANGED <<platform, args, fs, todo, stack, calls, before, exc, status>>

(***************************************************************************)
(* for_all_entries_do and for_path_do.                                     *)
(***************************************************************************)
\* sep of for_all_entries_do
WalkSep == IF args.flatten THEN "_" ELSE "/"

Frame(ino, full_path, part_path) ==
    [ino |-> ino, full_path |-> full_path, part_path |-> part_path, idx |-> 1]

RECURSIVE Unwind(_)
\* the calls whose loop over the enumeration has ended return
Unwind(st) ==
    IF st # <<>> /\ Last(st).idx > Len(OpenDir(Last(st).ino))
    THEN Unwind(Front(st))
    ELSE st

\* Advance with the call on the entry put off until the loop has ended
AdvanceSiblingsFirst(st, deeper) ==
    Unwind(deeper \o Front(st) \o <<[Last(st) EXCEPT !.idx = @ + 1]>>)

\* the stack after the call of the top frame has gone on to its next entry and,
\* when deeper is a frame, has called itself on it
Advance(st, deeper) ==
    Unwind(Front(st) \o <<[Last(st) EXCEPT !.idx = @ + 1]>> \o deeper)

\* sub_part_path of for_all_entries_do
sub_part_path(part_path, file_name) ==
    IF part_path # <<>> THEN part_path \o <<WalkSep>> \o file_name ELSE file_name

\* the state after a do_func call with result r, the walk going on with stack st
AfterCall(r, rec, st) ==
    /\ fs' = r.fs
    /\ before' = fs
    /\ out' = out \o r.out
    /\ calls' = Append(calls, rec)
    /\ exc' = r.exc
    /\ IF r.exc # <<>>
       THEN /\ pc' = "raised"
            /\ stack' = <<>>
            /\ todo' = todo
       ELSE /\ pc' = pc
            /\ stack' = st
            /\ todo' = IF st = <<>> THEN todo + 1 ELSE todo
    /\ UNCHANGED <<platform, args, opened, status>>

\* one turn of the loop of the innermost for_all_entries_do call: the entry,
\* its do_func call and, when that says so, the call on the entry
for_all_entries_do ==
    /\ pc = "loop"
    /\ stack # <<>>
    /\ LET top == Last(stack)
           e == OpenDir(top.ino)[top.idx]
           r == extract(fs, e[2], top.full_path, top.part_path, e[1], e[3])
           go_deeper == r.ret
           deeper == IF go_deeper
                     THEN <<Frame(e[2], top.full_path \o <<"/">> \o e[1],
                                  sub_part_path(top.part_path, e[1]))>>
                     ELSE <<>>
       IN  AfterCall(r, CallRecord("for_all_entries_do", e[2], top.full_path, top.part_path,
                                e[1], e[3], r),
                     Advance(stack, deeper))

\* TargetIndex without the break: the last entry named name
TargetIndexLast(entries, name) ==
    IF \E i \in 1..Len(entries) : entries[i][1] = name
    THEN CHOOSE i \in 1..Len(entries) :
            /\ entries[i][1] = name
            /\ \A j \in (i + 1)..Len(entries) : entries[j][1] # name
    ELSE 0

\* the index in the parent's enumeration of the entry for_path_do takes for
\* the last name of the target; 0 if there is none
TargetIndex(entries, name) == FirstMatch(entries, name)

\* for_path_do(volume.root, "", target_path, extract, args) up to its first
\* do_func call or its call of for_all_entries_do
for_path_do ==
    /\ pc = "loop"
    /\ stack = <<>>
    /\ todo <= Len(args.src_fnames)
    /\ LET current_path == <<>>
           relative_path == Split(args.src_fnames[todo], "/")
           parent_inode == IF Len(relative_path) > 1
                           THEN GetInode(RootIno, Front(relative_path))
                           ELSE RootIno
           sub_path == IF Len(relative_path) > 1
                       THEN current_path \o <<"/">> \o Join(Front(relative_path), <<"/">>)
                       ELSE current_path
           file_name == Last(relative_path)
       IN  IF parent_inode = NoIno
           THEN /\ exc' = <<"'">> \o Join(Front(relative_path), <<"/">>)
                          \o <<"' not found.">>
                /\ pc' = "raised"
                /\ UNCHANGED <<platform, args, fs, out, opened, todo, stack, calls,
                               before, status>>
           ELSE IF file_name = <<".">>
           THEN /\ stack' = Unwind(<<Frame(parent_inode, current_path, <<>>)>>)
                /\ todo' = IF stack' = <<>> THEN todo + 1 ELSE todo
                /\ UNCHANGED <<platform, args, fs, out, pc, opened, calls, before,
                               exc, status>>
           ELSE LET k == TargetIndex(OpenDir(parent_inode), file_name)
                IN  IF k = 0
                    THEN /\ exc' = <<"'">> \o file_name \o <<"' not found in '">>
                                   \o sub_path \o <<"'.">>
                         /\ pc' = "raised"
                         /\ UNCHANGED <<platform, args, fs, out, opened, todo, stack,
                                        calls, before, status>>
                    ELSE LET e == OpenDir(parent_inode)[k]
                             r == extract(fs, e[2], sub_path, <<>>, e[1], e[3])
                             deeper == IF r.ret
                                       THEN <<Frame(e[2], sub_path \o <<"/">> \o e[1], e[1])>>
                                       ELSE <<>>
                         IN  AfterCall(r, CallRecord("for_path_do", e[2], sub_path, <<>>, e[1], e[3], r),
                                       Unwind(deeper))

\* main() returns: the process ends with status 0
main_return ==
    /\ pc = "loop"
    /\ stack = <<>>
    /\ todo > Len(args.src_fnames)
    /\ pc' = "done"
    /\ status' = 0
    /\ UNCHANGED <<platform, args, fs, out, opened, todo, stack, calls, before, exc>>

\* main_except going on with the next source path instead of exiting
main_except_continue ==
    /\ pc = "raised"
    /\ out' = Append(out, <<"Error: ">> \o exc)
    /\ pc' = "loop"
    /\ todo' = todo + 1
    /\ UNCHANGED <<platform, args, fs, opened, stack, calls, before, exc, status>>

\* the handler of __main__: print the error, exit with status 10
main_except ==
    /\ pc = "raised"
    /\ out' = Append(out, <<"Error: ">> \o exc)
    /\ status' = 10
    /\ pc' = "exit"
    /\ UNCHANGED <<platform, args, fs, opened, todo, stack, calls, before, exc>>

Next ==
    \/ main_args
    \/ main_open
    \/ for_path_do
    \/ for_all_entries_do
    \/ main_return
    \/ main_except

Spec == Init /\ [][Next]_vars


(***************************************************************************)
(* What the properties speak of.                                           *)
(***************************************************************************)
Called == calls # <<>>

\* the last do_func call
LastCall == Last(calls)

\* the destination path of the last call, as the host parses it
LastDst == HostPath(LastCall.dst)

\* the destination root, as the host parses it
DstRoot == HostPath(args.directory)

\* every destination entry the last call found is left as it was
Kept == \A p \in DOMAIN before : p \in DOMAIN fs /\ fs[p] = before[p]

\* the types extract creates a file or a link for
Created == {FILE, CHARACTER_DEVICE, BLOCK_DEVICE, FIFO, SOCKET, SYMBOLIC_LINK}

DotNames == {<<".">>, <<".", ".">>}

(***************************************************************************)
(* C1. With --conflict-rename, under every setting of the other flags and  *)
(* every earlier state of the destination, a call of extract for an entry  *)
(* that is no directory leaves every destination path that existed before  *)
(* the call as it was: the path it creates did not exist before.           *)
(***************************************************************************)
C1_NoOverwrite ==
    (Called /\ args.conflict_rename /\ LastCall.file_type \in Created
        /\ ~LastCall.raised)
    => /\ LastDst \notin DOMAIN before
       /\ LastDst \in DOMAIN fs
       /\ Kept

(***************************************************************************)
(* C2. With --flatten and --recursive, for every destination root (the     *)
(* empty one too), no call creates a destination directory, and every      *)
(* regular file is created directly in the destination root, its name the  *)
(* relative path and the entry name joined by "_".                         *)
(***************************************************************************)
FlatName(c) ==
    IF c.rel_path # <<>> THEN c.rel_path \o <<"_">> \o c.file_name ELSE c.file_name

C2_FlattenInRoot ==
    (Called /\ args.flatten /\ args.recursive)
    => /\ \A p \in DOMAIN fs : fs[p].kind = "dir" => p \in DOMAIN before
       /\ LastCall.file_type = FILE
          => /\ Front(LastDst) = DstRoot
             /\ ~args.conflict_rename /\ ~(args.wa_fnames /\ Win32)
                => LastDst = DstRoot \o <<FlatName(LastCall)>>

(***************************************************************************)
(* C9. For a symbolic-link entry, under every flag setting, the target of  *)
(* the link extract creates is the bytes of the inode decoded as text with *)
(* each "/" replaced by the host's path separator.                         *)
(***************************************************************************)
C9_LinkTargetHostSep ==
    (Called /\ LastCall.file_type = SYMBOLIC_LINK /\ ~LastCall.raised
        /\ LastDst \notin DOMAIN before)
    => /\ LastDst \in DOMAIN fs
       /\ fs[LastDst].kind = "link"
       /\ fs[LastDst].target = Replace(Utf8Decode(ReadAll(LastCall.ino)), "/", <<OsSep>>)


(***************************************************************************)
(* The calls a run is to make, read off the image alone.                   *)
(***************************************************************************)
\* whether the walk is to go into entry e
Descends(e) == e[3] = DIRECTORY /\ e[1] \notin DotNames /\ args.recursive

Visit(full_path, e) == <<full_path, e[1], e[2], e[3]>>

RECURSIVE WalkEntries(_, _, _)
\* the entries from the k-th on of a directory at full_path, each followed by
\* the walk of all that lies below it
WalkEntries(entries, k, full_path) ==
    IF k > Len(entries) THEN <<>>
    ELSE LET e == entries[k]
         IN  <<Visit(full_path, e)>>
             \o (IF Descends(e)
                 THEN WalkEntries(OpenDir(e[2]), 1, full_path \o <<"/">> \o e[1])
                 ELSE <<>>)
             \o WalkEntries(entries, k + 1, full_path)

\* the directory holding the last name of a target path, and that directory's path
TargetParent(target) ==
    IF Len(Split(target, "/")) > 1
    THEN GetInode(RootIno, Front(Split(target, "/")))
    ELSE RootIno

TargetDirPath(target) ==
    IF Len(Split(target, "/")) > 1
    THEN <<"/">> \o Join(Front(Split(target, "/")), <<"/">>)
    ELSE <<>>

TargetName(target) == Last(Split(target, "/"))

\* the last name of the target is in no entry of its directory
Absent(target) ==
    /\ TargetParent(target) # NoIno
    /\ \A i \in 1..Len(OpenDir(TargetParent(target))) :
          OpenDir(TargetParent(target))[i][1] # TargetName(target)

\* the calls for one source path
ExpectedFor(target) ==
    IF TargetParent(target) = NoIno \/ Absent(target) THEN <<>>
    ELSE IF TargetName(target) = <<".">>
    THEN WalkEntries(OpenDir(TargetParent(target)), 1, <<>>)
    ELSE LET e == OpenDir(TargetParent(target))
                    [FirstIdx([i \in 1..Len(OpenDir(TargetParent(target))) |->
                                 OpenDir(TargetParent(target))[i][1]],
                              {TargetName(target)})]
         IN  <<Visit(TargetDirPath(target), e)>>
             \o (IF Descends(e)
                 THEN WalkEntries(OpenDir(e[2]), 1,
                                  TargetDirPath(target) \o <<"/">> \o e[1])
                 ELSE <<>>)

RECURSIVE ExpectedRun(_)
\* the calls for the first k source paths
ExpectedRun(k) ==
    IF k = 0 THEN <<>>
    ELSE ExpectedRun(k - 1) \o ExpectedFor(args.src_fnames[k])

Visits == [i \in 1..Len(calls) |->
             <<calls[i].path, calls[i].file_name, calls[i].ino, calls[i].file_type>>]

IsPrefix(a, b) == Len(a) <= Len(b) /\ SubSeq(b, 1, Len(a)) = a

\* the NotFound error of for_path_do
IsNotFound(m) == \E i \in 1..Len(m) : m[i] = "' not found in '"

(***************************************************************************)
(* C3. Every directory walked has extract called once for each entry of    *)
(* its enumeration, in the order of the enumeration, all that lies below   *)
(* an entry that said descend before the next entry; the entries . and ..  *)
(* are passed to extract, are never gone into and change nothing.          *)
(* The order is stated of the calls a run has made when it ends: all the   *)
(* calls the image asks for when main returns, the first of them when an   *)
(* error has ended the run.                                                *)
(***************************************************************************)
C3_WalkOrder ==
    /\ pc \in {"done", "exit"} => IsPrefix(Visits, ExpectedRun(Len(args.src_fnames)))
    /\ pc = "done" => Len(calls) = Len(ExpectedRun(Len(args.src_fnames)))
    /\ \A i \in 1..Len(calls) : calls[i].file_name \in DotNames => ~calls[i].ret
    /\ (Called /\ LastCall.file_name \in DotNames) => fs = before /\ ~LastCall.raised

\* a whole recursive walk from the root, three levels deep, has ended
C3_Witness ==
    /\ pc = "done"
    /\ args.recursive
    /\ args.src_fnames = << <<".">> >>
    /\ Len(calls) = 15
    /\ \E i \in 1..Len(calls) : calls[i].file_name \in DotNames /\ calls[i].path # <<>>

(***************************************************************************)
(* C4. Without --recursive, a directory entry met anywhere in a run leaves *)
(* the destination as it was, is not gone into, and has one line naming it *)
(* printed at -v or more, and none without -v.                             *)
(***************************************************************************)
\* the call printed the one line that tells of the directory left out
OneOmitLine(c) ==
    /\ Len(c.out) = 1
    /\ \E i \in 1..Len(c.out[1]) :
          c.out[1][i] = ": -R not specified; omitting directory '"
    /\ EndsWith(c.out[1], c.file_name \o <<"'">>)

C4_OmitEveryDirectory ==
    (Called /\ ~args.recursive /\ LastCall.file_type = DIRECTORY)
    => /\ fs = before
       /\ ~LastCall.ret
       /\ ~LastCall.raised
       /\ Len(stack) <= 1
       /\ IF args.verbose >= 1 THEN OneOmitLine(LastCall) ELSE LastCall.out = <<>>

\* C4 as amended: the line is printed for the directory entries other than
\* . and .. ; for . and .. nothing is printed at any verbosity
C4_OmitNamedDirectory ==
    (Called /\ ~args.recursive /\ LastCall.file_type = DIRECTORY)
    => /\ fs = before
       /\ ~LastCall.ret
       /\ ~LastCall.raised
       /\ Len(stack) <= 1
       /\ IF args.verbose >= 1 /\ LastCall.file_name \notin DotNames
          THEN OneOmitLine(LastCall)
          ELSE LastCall.out = <<>>

\* directory a has been met by the walk of the root without --recursive at -v
C4_Witness ==
    /\ Called
    /\ ~args.recursive
    /\ args.verbose >= 1
    /\ LastCall.file_type = DIRECTORY
    /\ LastCall.file_name = <<"a">>
    /\ LastCall.by = "for_all_entries_do"
    /\ OneOmitLine(LastCall)

(***************************************************************************)
(* C5. When one source path of several fails to resolve, the failure is    *)
(* reported and the source paths after it are still resolved and           *)
(* materialized.                                                           *)
(***************************************************************************)
\* source path i has been handed to for_path_do
Attempted(i) == i <= todo /\ pc \in {"loop", "raised", "exit", "done"}

C5_LaterSourcesProcessed ==
    (status # -1 /\ IsNotFound(exc))
    => \A i \in 1..Len(args.src_fnames) : Attempted(i)

\* C5 as amended: the failure is reported and ends the run with a failure
\* status; the source paths before it have been processed, none after it is
\* resolved or materialized
C5_RunStopsAtNotFound ==
    /\ IsNotFound(exc)
       => /\ pc \in {"raised", "exit"}
          /\ status \in {-1, 10}
          /\ Absent(args.src_fnames[todo])
          /\ \A i \in 1..(todo - 1) : ~Absent(args.src_fnames[i])
          /\ Visits = ExpectedRun(todo - 1)
          /\ pc = "exit" => status = 10 /\ Last(out) = <<"Error: ">> \o exc
    /\ pc = "done" => \A i \in 1..Len(args.src_fnames) : ~Absent(args.src_fnames[i])

\* the first of two source paths failed and the run has ended
C5_Witness ==
    /\ pc = "exit"
    /\ IsNotFound(exc)
    /\ todo = 1
    /\ Len(args.src_fnames) = 2
    /\ ~Absent(args.src_fnames[2])


(***************************************************************************)
(* C6. for_path_do on a target other than "." whose last name is in no     *)
(* entry of its directory fails with the NotFound error that names that    *)
(* name and the path of the directory, with no extract call and no change  *)
(* of the destination; when several entries bear the name, the first in    *)
(* the order of the enumeration, its inode and its type, is the one        *)
(* extract is called on.                                                   *)
(***************************************************************************)
\* for_path_do is what the run does next
AtForPathDo == pc = "loop" /\ stack = <<>> /\ todo <= Len(args.src_fnames)

C6_NotFoundAndFirstMatch ==
    [][ (AtForPathDo /\ args.src_fnames[todo] # <<".">>
            /\ TargetParent(args.src_fnames[todo]) # NoIno)
        => LET target == args.src_fnames[todo]
               entries == OpenDir(TargetParent(target))
               hits == {i \in 1..Len(entries) : entries[i][1] = TargetName(target)}
           IN  IF hits = {}
               THEN /\ pc' = "raised"
                    /\ exc' = <<"'">> \o TargetName(target) \o <<"' not found in '">>
                              \o TargetDirPath(target) \o <<"'.">>
                    /\ calls' = calls
                    /\ fs' = fs
                    /\ out' = out
               ELSE TargetName(target) # <<".">>
                    => LET first == CHOOSE i \in hits : \A j \in hits : i <= j
                       IN  /\ Len(calls') = Len(calls) + 1
                           /\ Last(calls').by = "for_path_do"
                           /\ Last(calls').file_name = TargetName(target)
                           /\ Last(calls').ino = entries[first][2]
                           /\ Last(calls').file_type = entries[first][3] ]_vars

\* f, which the root holds twice, has been extracted by name, and after it
\* a/z has not been found in /a
C6_Witness ==
    /\ pc = "raised"
    /\ exc = <<"'", "z", "' not found in '", "/", "a", "'.">>
    /\ Called
    /\ LastCall.by = "for_path_do"
    /\ LastCall.file_name = <<"f">>
    /\ LastCall.ino = 11
    /\ ~LastCall.raised

(***************************************************************************)
(* C7. When the source specifiers name more than one image, the usage      *)
(* error is raised before the image is opened and before any source path   *)
(* is resolved, walked or materialized, those listed before the offending  *)
(* specifier too: the destination stays as it was and the run fails.       *)
(***************************************************************************)
ImageOf(specifier) == Split1(specifier, ":")[1]

MoreThanOneImage ==
    \E i \in 1..Len(args.source) : ImageOf(args.source[i]) # ImageOf(args.source[1])

\* the first specifier that names another image than the first one does
FirstOther ==
    CHOOSE i \in 1..Len(args.source) :
        /\ ImageOf(args.source[i]) # ImageOf(args.source[1])
        /\ \A j \in 1..(i - 1) : ImageOf(args.source[j]) = ImageOf(args.source[1])

C7_UsageErrorFirst ==
    MoreThanOneImage
    => /\ ~opened
       /\ calls = <<>>
       /\ fs = before
       /\ stack = <<>>
       /\ todo = 1
       /\ pc \in {"main", "raised", "exit"}
       /\ status \in {-1, 10}
       /\ pc = "exit"
          => /\ status = 10
             /\ out = << <<"Error: ",
                           "Single command can only extract from one image, not '">>
                         \o ImageOf(args.source[FirstOther]) \o <<"'.">> >>

\* the run has failed on a second specifier of another image, after a first
\* one that names a file of the image
C7_Witness ==
    /\ pc = "exit"
    /\ status = 10
    /\ args.source = << <<"i", ":", "f">>, <<"j", ":", "f">> >>
    /\ ~opened
    /\ calls = <<>>

(***************************************************************************)
(* C8. Under one run configuration, extracting an entry a second time over *)
(* what the first pass left keeps a destination symbolic link as it is     *)
(* (no new link, no error), creates a regular file or a placeholder anew   *)
(* at the same destination path, and does nothing for a directory.         *)
(***************************************************************************)
SameEntry(c, d) ==
    /\ c.path = d.path
    /\ c.rel_path = d.rel_path
    /\ c.file_name = d.file_name
    /\ c.ino = d.ino
    /\ c.file_type = d.file_type

\* the calls before the last that were for the entry of the last call
FirstPasses == {i \in 1..(Len(calls) - 1) : SameEntry(calls[i], LastCall)}

SecondPass == Called /\ FirstPasses # {}

\* the last call kept the link at its destination path
LinkKept ==
    /\ ~LastCall.raised
    /\ fs = before
    /\ LastDst \in DOMAIN fs
    /\ fs[LastDst].kind = "link"
    /\ \A i \in FirstPasses : HostPath(calls[i].dst) = LastDst

\* the last call wrote bytes d anew at the destination path of the first pass
WrittenAnew(d) ==
    /\ ~LastCall.raised
    /\ \A i \in FirstPasses : HostPath(calls[i].dst) = LastDst
    /\ LastDst \in DOMAIN before
    /\ fs = (Resolve(before, LastDst, {}).path :> FileNode(d)) @@ before

DirectoryNoOp == ~LastCall.raised /\ fs = before

SecondPassEffect ==
    CASE LastCall.file_type = SYMBOLIC_LINK -> LinkKept
      [] LastCall.file_type = FILE -> WrittenAnew(ReadAll(LastCall.ino))
      [] LastCall.file_type \in {CHARACTER_DEVICE, BLOCK_DEVICE, FIFO, SOCKET} ->
            WrittenAnew(<<>>)
      [] LastCall.file_type = DIRECTORY -> DirectoryNoOp
      [] OTHER -> TRUE

C8_SecondPassAnyConfiguration == SecondPass => SecondPassEffect

\* C8 as amended: with --conflict-rename off for the links, files and
\* placeholders; for a directory under every configuration
C8_SecondPassNoRename ==
    (SecondPass /\ (~args.conflict_rename \/ LastCall.file_type = DIRECTORY))
    => SecondPassEffect

\* link l has been extracted a second time without --conflict-rename
C8_Witness ==
    /\ SecondPass
    /\ ~args.conflict_rename
    /\ LastCall.file_type = SYMBOLIC_LINK
    /\ LinkKept
    /\ \E i \in 1..(Len(calls) - 1) : calls[i].file_type = FILE /\ ~calls[i].raised

(***************************************************************************)
(* C10. With --recursive and without --flatten, from a destination root    *)
(* that exists, the directory that is to hold the destination path of each *)
(* extract call exists already when the call is made, at every depth and   *)
(* for both ways a walk starts.                                            *)
(***************************************************************************)
C10_ParentExists ==
    (Called /\ args.recursive /\ ~args.flatten /\ LastCall.file_name \notin DotNames)
    => ParentIsDir(before, LastDst)

\* x.fw, two directories below the named target a, has been created
C10_Witness ==
    /\ Called
    /\ args.recursive
    /\ ~args.flatten
    /\ args.src_fnames = << <<"a">> >>
    /\ LastCall.file_name = <<"x", ".", "f", "w">>
    /\ ~LastCall.raised
    /\ Len(LastDst) = Len(DstRoot) + 3
    /\ LastDst \in DOMAIN fs

=============================================================================
